---- MODULE Spec2Model ----
(***************************************************************************)
(* The question-answering pipeline of src/core/qa_processor.py             *)
(* (QAProcessor) together with the request validation of                   *)
(* src/api/models.py (QuestionRequest).                                    *)
(*                                                                         *)
(* Numbers: similarities, distances and thresholds are tenths (7 is 0.7).  *)
(* Strings that the code manipulates (questions) are sequences of          *)
(* one-character strings; fixed texts are named constants.                 *)
(* A call's total_time is counted in awaited external operations of that   *)
(* call (cache get, embedding, index query, generation, cache set).        *)
(***************************************************************************)
EXTENDS Integers, Sequences, FiniteSets, TLC

(* ------------------------------ bounds --------------------------------- *)
MaxCalls == 2            \* calls issued in one behaviour of Spec
MaxHits == 1             \* longest index result in Spec
MaxDocs == 3             \* longest index result in RetrieveSpec
NumProcs == 2            \* call slots (Spec uses slot 1 only: a sequential caller)
MaxTokens == 2           \* largest token count the generator reports
MaxInits == 2            \* calls of RAGEngine.initialize in one behaviour
MaxFiles == 2            \* most files in a directory handed to process_directory

(* ------------------------ configuration (settings.py) ------------------ *)
None == -1               \* Python None for an optional numeric argument
One == 10                \* 1.0 in tenths
retrieval_k == 5
cache_ttl == 3600
similarity_threshold == 7
MaxQuestionLen == 2      \* QuestionRequest.question max_length (1000), scaled
MinQuestionLen == 1

Procs == 1 .. NumProcs
\* the slot of the sequential caller: the first one
Caller == CHOOSE p \in Procs : \A r \in Procs : p <= r

(* ------------------------------ inputs --------------------------------- *)
\* questions handed to process_question directly (tests, engine callers)
Questions == { <<>>, <<"a">> }
\* questions arriving in a QuestionRequest
RequestQuestions == { <<>>, <<" ">>, <<"a">>, <<" ", "a">>, <<" ", "a", " ">> }
ArgK == { None, 1 }
ArgThreshold == { None, 5 }
WideArgK == { None, 0, 1, 2 }
WideArgThreshold == { None, 0, 5, 9 }
Distances == { 1, 4 }
WideDistances == { 1, 4, 12 }
Answers == { "answer1", "answer2" }

(* fixed texts of process_question *)
NoDocsMessage == "no_documents_found"
NoDocsAnswer == "sorry_no_relevant_information"
DoneMessage == "qa_done"
FailedMessage == "qa_failed"
ErrorAnswer == "sorry_error_occurred"

EmbedError == "embedding_failed"
QueryError == "index_query_failed"
GenerateError == "generation_failed"

(* ------------------------------ helpers -------------------------------- *)
\* Python:  x or default   (None and 0 are both falsy)
OrDefault(x, d) == IF x = None \/ x = 0 THEN d ELSE x

EffK(k) == OrDefault(k, retrieval_k)

EffThreshold(t) == OrDefault(t, similarity_threshold)

Min(a, b) == IF a <= b THEN a ELSE b

RECURSIVE LStrip(_)
LStrip(s) == IF s # <<>> /\ Head(s) = " " THEN LStrip(Tail(s)) ELSE s

RECURSIVE RStrip(_)
RStrip(s) ==
  IF s # <<>> /\ s[Len(s)] = " " THEN RStrip(SubSeq(s, 1, Len(s) - 1)) ELSE s

\* str.strip()
Strip(s) == RStrip(LStrip(s))

\* the validator handing the question on as it came
RequestQuestionRaw(q) == q

\* validate_question, line 119: the validated value is v.strip()
RequestQuestion(q) == Strip(q)

\* the validator without its strip() test
ValidQuestionLengthOnly(q) ==
  /\ Len(q) >= MinQuestionLen
  /\ Len(q) <= MaxQuestionLen

\* QuestionRequest: Field(min_length=1, max_length=1000) on the raw string,
\* then validate_question: reject when v.strip() is empty
ValidQuestion(q) ==
  /\ Len(q) >= MinQuestionLen
  /\ Len(q) <= MaxQuestionLen
  /\ Strip(q) # <<>>

\* the key without the default for k
GenerateCacheKeyRawK(question, k) == << "qa:", question, k, similarity_threshold >>

\* _generate_cache_key: "qa:" + md5(f"{question}_{k}_{settings.similarity_threshold}")
\* (md5 taken as collision free: the key is the hashed content)
GenerateCacheKey(question, k) ==
  << "qa:", question, EffK(k), similarity_threshold >>

Keys ==
  { GenerateCacheKey(q, k) : q \in Questions \cup { Strip(r) : r \in RequestQuestions },
                             k \in ArgK }

\* the index's answer to query(embedding, k): at most k distances
SeqsUpTo(S, n) == UNION { [1 .. m -> S] : m \in 0 .. n }

IndexResults(k, maxlen, dists) == SeqsUpTo(dists, Min(k, maxlen))

\* retrieve_documents, lines 228-245: score, filter, rank
ScoredDocument(results, i) ==
  [ content |-> i, similarity_score |-> One - results[i], rank |-> i ]

\* the comparison of line 239 turned around
PassesBelow(doc, threshold) == doc.similarity_score <= threshold

Passes(doc, threshold) == doc.similarity_score >= threshold

\* the kept documents handed back last first
RetrieveDocumentsReversed(results, threshold) ==
  LET kept == SelectSeq([ i \in 1 .. Len(results) |-> ScoredDocument(results, i) ],
                        LAMBDA d : Passes(d, threshold))
  IN [ i \in 1 .. Len(kept) |-> kept[Len(kept) + 1 - i] ]

RetrieveDocuments(results, threshold) ==
  SelectSeq([ i \in 1 .. Len(results) |-> ScoredDocument(results, i) ],
            LAMBDA d : Passes(d, threshold))


(* ----------------------- results of process_question ------------------- *)
\* every result carries the same fields; a key the Python dict lacks is ""
\* (error) or <<>> (retrieval_stats)
NoResult ==
  [ success |-> FALSE, message |-> "", answer |-> "", question |-> <<>>,
    context_documents |-> <<>>, total_time |-> 0, from_cache |-> FALSE,
    error |-> "", retrieval_stats |-> <<>> ]

\* the zero-document result marked as served from the cache
NoDocsResultFromCache(question, elapsed) ==
  [ success |-> FALSE, message |-> NoDocsMessage, answer |-> NoDocsAnswer,
    question |-> question, context_documents |-> <<>>, total_time |-> elapsed,
    from_cache |-> TRUE, error |-> "", retrieval_stats |-> <<>> ]

\* lines 368-376
NoDocsResult(question, elapsed) ==
  [ success |-> FALSE, message |-> NoDocsMessage, answer |-> NoDocsAnswer,
    question |-> question, context_documents |-> <<>>, total_time |-> elapsed,
    from_cache |-> FALSE, error |-> "", retrieval_stats |-> <<>> ]

\* the statistics report the threshold argument as it was passed
SuccessResultRawThreshold(question, docs, t, answer, elapsed) ==
  [ success |-> TRUE, message |-> DoneMessage, answer |-> answer,
    question |-> question, context_documents |-> docs, total_time |-> elapsed,
    from_cache |-> FALSE, error |-> "",
    retrieval_stats |->
      << [ retrieved_count |-> Len(docs), similarity_threshold |-> t ] >> ]

\* lines 383-394 (answer, question and context_documents come from answer_data)
SuccessResult(question, docs, t, answer, elapsed) ==
  [ success |-> TRUE, message |-> DoneMessage, answer |-> answer,
    question |-> question, context_documents |-> docs, total_time |-> elapsed,
    from_cache |-> FALSE, error |-> "",
    retrieval_stats |->
      << [ retrieved_count |-> Len(docs),
           similarity_threshold |-> OrDefault(t, similarity_threshold) ] >> ]

\* lines 404-412
ErrorResult(question, e, elapsed) ==
  [ success |-> FALSE, message |-> FailedMessage, answer |-> ErrorAnswer,
    question |-> question, context_documents |-> <<>>, total_time |-> elapsed,
    from_cache |-> FALSE, error |-> e, retrieval_stats |-> <<>> ]

\* the cached dict handed back as it was stored
CacheHitResultStale(cached, elapsed) == cached

\* lines 356-357: the cached dict with two keys overwritten
CacheHitResult(cached, elapsed) ==
  [ cached EXCEPT !.from_cache = TRUE, !.total_time = elapsed ]

\* json.dumps(answer_data): the stored text, a list of (key, value) pairs
Dumps(r) ==
  << <<"success", r.success>>, <<"message", r.message>>, <<"from_cache", r.from_cache>>,
     <<"total_time", r.total_time>>, <<"retrieval_stats", r.retrieval_stats>>,
     <<"answer", r.answer>>, <<"question", r.question>>,
     <<"context_documents", r.context_documents>>, <<"error", r.error>> >>

Lookup(s, key) == (CHOOSE i \in 1 .. Len(s) : s[i][1] = key)

Value(s, key) == s[Lookup(s, key)][2]

\* json.loads(cached_data)
Loads(s) ==
  [ success |-> Value(s, "success"), message |-> Value(s, "message"),
    answer |-> Value(s, "answer"), question |-> Value(s, "question"),
    context_documents |-> Value(s, "context_documents"),
    total_time |-> Value(s, "total_time"), from_cache |-> Value(s, "from_cache"),
    error |-> Value(s, "error"), retrieval_stats |-> Value(s, "retrieval_stats") ]

\* Redis GET of a missing key returns None
NoEntry == <<>>

(* ------------------------------- state --------------------------------- *)
VARIABLES
  cache_client,   \* QAProcessor.cache_client: TRUE a client, FALSE None
  cache,          \* the Redis store: key -> stored text or NoEntry
  pc,             \* per call slot: where the call stands
  args,           \* per call slot: the arguments of the call
  cache_key,      \* per call slot: the local cache_key
  documents,      \* per call slot: the local documents
  result,         \* per call slot: the value the call returns
  ev,             \* per call slot: the external operations awaited, in order
  prior,          \* per call slot: lastStore as it was when the call began
  ncalls,         \* calls issued so far
  lastStore,      \* history: the last call that wrote the cache, while its entry lives
  hist,           \* history, per key: "none", "empty" (only zero-document
                  \* retrievals so far) or "nonempty" (some retrieval found documents)
  rcall,          \* a stand-alone retrieve_documents call (RetrieveSpec)
  batch,          \* a batch_process_questions call (BatchSpec)
  kcall,          \* per slot: a stand-alone _generate_cache_key invocation (KeySpec)
  dp,             \* the DocumentProcessor and its collection (DocSpec)
  expired,        \* history: the keys an entry of which has expired
  gcall,          \* a call of generate_answer on its own (GenSpec)
  engine          \* the RAGEngine: its fields, initialize() and the call in progress

vars == << cache_client, cache, pc, args, cache_key, documents, result, ev,
           prior, ncalls, lastStore, hist, rcall, batch, kcall, dp, expired, gcall, engine >>

NoArgs == [ question |-> <<>>, k |-> None, similarity_threshold |-> None,
            use_cache |-> FALSE ]

NoKey == << "qa:", <<>>, 0, 0 >>

IdleRCall == [ stage |-> "idle", k |-> None, similarity_threshold |-> None,
               results |-> <<>>, out |-> <<>> ]

\* no generate_answer call in progress
IdleGCall == [ stage |-> "idle", response |-> <<>>, out |-> <<>> ]

\* no RAGEngine operation in progress
IdleCall == [ name |-> "none", stage |-> "idle", initialized |-> FALSE,
              outcome |-> "none", invoked |-> {}, probe |-> <<>>, health |-> <<>> ]

\* RAGEngine.__init__, lines 32-34 (a processor field is TRUE once the
\* processor is constructed); init is the position of initialize(),
\* cache_init the outcome of its init_cache_client, failed the constructor
\* that raised in it, ninit the number of initialize() calls so far
NewEngine ==
  [ initialized |-> FALSE, document_processor |-> FALSE, qa_processor |-> FALSE,
    init |-> "idle", cache_init |-> "none", failed |-> "none", ninit |-> 0,
    call |-> IdleCall ]

\* no batch call in progress; finished is history: the slots of the batch's
\* tasks in the order in which the tasks ended
IdleBatch == [ stage |-> "idle", questions |-> <<>>, results |-> <<>>,
               finished |-> <<>> ]

\* results of process_file; a key the dict lacks is None (numbers) or ""
NoFileResult ==
  [ success |-> FALSE, message |-> "", file_path |-> "", stored_count |-> None,
    chunks_created |-> None, original_docs |-> None, error |-> "" ]

IdleFile ==
  [ stage |-> "idle", path |-> "", present |-> FALSE, checked |-> FALSE,
    added |-> FALSE, result |-> NoFileResult ]

NoDirResults ==
  [ success_count |-> 0, error_count |-> 0, total_files |-> 0, total_chunks |-> 0,
    processed_files |-> <<>>, errors |-> <<>> ]

IdleDir == [ stage |-> "idle", files |-> <<>>, i |-> 0, results |-> NoDirResults ]

\* the processor with an empty collection.  file is the process_file call in
\* progress (present, checked and added are history: the file's hash was in
\* the collection when the call began, the processed-check did not raise,
\* collection.add was invoked), dir the process_directory call in progress
IdleDP == [ collection |-> {}, file |-> IdleFile, dir |-> IdleDir ]

\* no _generate_cache_key invocation recorded in the slot; via tells how the
\* question came ("direct", or "request" through QuestionRequest), raw is the
\* question before the request model's validator
IdleKCall == [ via |-> "none", raw |-> <<>>, question |-> <<>>, k |-> None,
               key |-> NoKey ]

Event(op, ok) == [ op |-> op, ok |-> ok ]

Invoked(p, op) == \E i \in 1 .. Len(ev[p]) : ev[p][i].op = op

\* history of a batch in progress: the task of slot p goes to stage next
Tracked(p, next) ==
  IF batch.stage = "running" /\ next \in { "done", "raised" }
    THEN [ batch EXCEPT !.finished = Append(@, p) ]
    ELSE batch

Init ==
  /\ cache_client \in BOOLEAN
  /\ cache = [ key \in Keys |-> NoEntry ]
  /\ pc = [ p \in Procs |-> "idle" ]
  /\ args = [ p \in Procs |-> NoArgs ]
  /\ cache_key = [ p \in Procs |-> NoKey ]
  /\ documents = [ p \in Procs |-> <<>> ]
  /\ result = [ p \in Procs |-> NoResult ]
  /\ ev = [ p \in Procs |-> <<>> ]
  /\ prior = [ p \in Procs |-> <<>> ]
  /\ ncalls = 0
  /\ lastStore = <<>>
  /\ hist = [ key \in Keys |-> "none" ]
  /\ rcall = IdleRCall
  /\ batch = IdleBatch
  /\ kcall = [ p \in Procs |-> IdleKCall ]
  /\ dp = IdleDP
  /\ expired = {}
  /\ gcall = IdleGCall
  /\ engine = NewEngine


(* ------------------------ process_question ----------------------------- *)
Elapsed(events) == Len(events)

\* a lookup that never finds anything
GetCachedAnswerNever(client, got, raised) ==
  IF ~client THEN [ events |-> <<>>, answer |-> <<>> ]
  ELSE [ events |-> << Event("cache_get", ~raised) >>, answer |-> <<>> ]

\* the lookup goes to the store whether there is a client or not
GetCachedAnswerUnguarded(client, got, raised) ==
  IF got # NoEntry
    THEN [ events |-> << Event("cache_get", TRUE) >>, answer |-> << Loads(got) >> ]
    ELSE [ events |-> << Event("cache_get", TRUE) >>, answer |-> <<>> ]

\* _get_cached_answer, lines 143-153: the event awaited (if any) and the dict
\* returned (<<>> stands for None).  got is what the store answers, raised
\* whether the store raised.
GetCachedAnswer(client, got, raised) ==
  IF ~client THEN [ events |-> <<>>, answer |-> <<>> ]
  ELSE IF raised THEN [ events |-> << Event("cache_get", FALSE) >>, answer |-> <<>> ]
  ELSE IF got # NoEntry
         THEN [ events |-> << Event("cache_get", TRUE) >>, answer |-> << Loads(got) >> ]
         ELSE [ events |-> << Event("cache_get", TRUE) >>, answer |-> <<>> ]

\* a read failure ends the call
FailAfterLookup(g) ==
  IF g.answer # <<>> \/ (g.events # <<>> /\ ~g.events[1].ok) THEN "done" ELSE "embed"

\* the generator is called before the retrieval
GenerateAfterLookup(g) == IF g.answer # <<>> THEN "done" ELSE "generate"

\* where the call goes after the lookup (lines 353-365): a dict that is not
\* None is returned, anything else (miss, read failure, no client) goes on
NextAfterLookup(g) == IF g.answer # <<>> THEN "done" ELSE "embed"

\* process_question up to its first return or to the retrieval, lines 348-363
Begin(p, question, k, t, use_cache, raised) ==
  LET key == GenerateCacheKey(question, k)
      g == IF use_cache THEN GetCachedAnswer(cache_client, cache[key], raised)
           ELSE [ events |-> <<>>, answer |-> <<>> ]
  IN /\ args' = [ args EXCEPT ![p] =
                    [ question |-> question, k |-> k, similarity_threshold |-> t,
                      use_cache |-> use_cache ] ]
     /\ cache_key' = [ cache_key EXCEPT ![p] = key ]
     /\ ev' = [ ev EXCEPT ![p] = g.events ]
     /\ prior' = [ prior EXCEPT ![p] = lastStore ]
     /\ result' = IF g.answer # <<>>
                    THEN [ result EXCEPT ![p] =
                             CacheHitResult(g.answer[1], Elapsed(g.events)) ]
                    ELSE result
     /\ pc' = [ pc EXCEPT ![p] = NextAfterLookup(g) ]
     /\ batch' = Tracked(p, NextAfterLookup(g))
     /\ ncalls' = ncalls + 1
     /\ UNCHANGED << cache_client, cache, documents, lastStore, hist, rcall, kcall, dp, expired, gcall, engine >>

\* a direct call of QAProcessor.process_question
ProcessQuestion(p, question, k, t, use_cache) ==
  /\ pc[p] = "idle"
  /\ ncalls < MaxCalls
  /\ \/ Begin(p, question, k, t, use_cache, FALSE)
     \/ /\ use_cache
        /\ cache_client
        /\ Begin(p, question, k, t, use_cache, TRUE)

\* POST /ask: QuestionRequest validation, then RAGEngine.answer_question,
\* which hands the validated (stripped) question to process_question
AskQuestion(p, question, k, t, use_cache) ==
  /\ pc[p] = "idle"
  /\ ncalls < MaxCalls
  /\ \/ /\ ~ValidQuestion(question)
        /\ pc' = [ pc EXCEPT ![p] = "rejected" ]
        /\ args' = [ args EXCEPT ![p] =
                       [ question |-> question, k |-> k, similarity_threshold |-> t,
                         use_cache |-> use_cache ] ]
        /\ ncalls' = ncalls + 1
        /\ UNCHANGED << cache_client, cache, cache_key, documents, result, ev, prior,
                        lastStore, hist, rcall, batch, kcall, dp, expired, gcall, engine >>
     \/ /\ ValidQuestion(question)
        /\ ProcessQuestion(p, RequestQuestion(question), k, t, use_cache)

\* where the call goes after an exception of retrieval or generation
\* (lines 403-414: the except clause returns error_result)
StoreAfterFailure(use_cache) == IF use_cache THEN "store" ELSE "done"

RaiseAfterFailure(use_cache) == "raised"

\* the failed call starts its retrieval again
RetryAfterFailure(use_cache) == "embed"

NextAfterFailure(use_cache) == "done"

\* where the call goes after retrieve_documents returned (lines 367-380)
StoreAfterRetrieve(docs, use_cache) ==
  IF docs = <<>> THEN (IF use_cache THEN "store" ELSE "done") ELSE "generate"

GenerateAfterRetrieve(docs, use_cache) == "generate"

NextAfterRetrieve(docs, use_cache) == IF docs = <<>> THEN "done" ELSE "generate"

\* the result is cached whatever use_cache says
StoreAfterGenerate(use_cache) == "store"

\* where the call goes after generate_answer returned (lines 396-401)
NextAfterGenerate(use_cache) == IF use_cache THEN "store" ELSE "done"

\* the cache write is made again after it returned
StoreAgainAfterStore(ok) == "store"

\* a failed cache write ends the call with an exception
RaiseAfterStore(ok) == IF ok THEN "done" ELSE "raised"

\* where the call goes after _set_cached_answer (lines 165-173 swallow the
\* exception of setex, lines 400-401 return result)
NextAfterStore(ok) == "done"

\* a lifetime that depends on the entry
EntryTTLByResult(answer_data) == cache_ttl * answer_data.total_time

\* _set_cached_answer, lines 167-171: setex(cache_key, settings.cache_ttl, ...)
EntryTTL(answer_data) == cache_ttl

\* SET only if the key has no entry
KeepFirstEntry(old, new) == IF old # NoEntry THEN old ELSE new

\* setex replaces whatever the key holds
StoredEntry(old, new) == new

\* the failure branch, lines 403-414
Fail(p, events, e) ==
  /\ ev' = [ ev EXCEPT ![p] = events ]
  /\ result' = [ result EXCEPT ![p] = ErrorResult(args[p].question, e, Elapsed(events)) ]
  /\ pc' = [ pc EXCEPT ![p] = NextAfterFailure(args[p].use_cache) ]
  /\ batch' = Tracked(p, NextAfterFailure(args[p].use_cache))

\* retrieve_documents, lines 214-217: the embedding of the question
Embed(p) ==
  /\ pc[p] = "embed"
  /\ \/ /\ ev' = [ ev EXCEPT ![p] = Append(@, Event("embed", TRUE)) ]
        /\ pc' = [ pc EXCEPT ![p] = "query" ]
        /\ UNCHANGED << result, batch >>
     \/ Fail(p, Append(ev[p], Event("embed", FALSE)), EmbedError)
  /\ UNCHANGED << cache_client, cache, args, cache_key, documents, prior, ncalls,
                  lastStore, hist, rcall, kcall, dp, expired, gcall, engine >>

\* retrieve_documents, lines 220-248, and process_question, lines 367-377
Query(p) ==
  /\ pc[p] = "query"
  /\ \/ \E results \in IndexResults(EffK(args[p].k), MaxHits, Distances) :
          LET docs == RetrieveDocuments(results, EffThreshold(args[p].similarity_threshold))
              events == Append(ev[p], Event("query", TRUE))
          IN /\ ev' = [ ev EXCEPT ![p] = events ]
             /\ documents' = [ documents EXCEPT ![p] = docs ]
             /\ pc' = [ pc EXCEPT ![p] = NextAfterRetrieve(docs, args[p].use_cache) ]
             /\ batch' = Tracked(p, NextAfterRetrieve(docs, args[p].use_cache))
             /\ IF docs = <<>>
                  THEN /\ result' = [ result EXCEPT ![p] =
                                        NoDocsResult(args[p].question, Elapsed(events)) ]
                       /\ hist' = [ hist EXCEPT ![cache_key[p]] =
                                      IF @ = "none" THEN "empty" ELSE @ ]
                  ELSE /\ hist' = [ hist EXCEPT ![cache_key[p]] = "nonempty" ]
                       /\ UNCHANGED result
     \/ /\ Fail(p, Append(ev[p], Event("query", FALSE)), QueryError)
        /\ UNCHANGED << documents, hist >>
  /\ UNCHANGED << cache_client, cache, args, cache_key, prior, ncalls, lastStore, rcall, kcall, dp, expired, gcall, engine >>

\* generate_answer, lines 269-327, and process_question, lines 380-397
Generate(p) ==
  /\ pc[p] = "generate"
  /\ \/ \E answer \in Answers :
          LET events == Append(ev[p], Event("generate", TRUE))
          IN /\ ev' = [ ev EXCEPT ![p] = events ]
             /\ result' = [ result EXCEPT ![p] =
                              SuccessResult(args[p].question, documents[p],
                                            args[p].similarity_threshold, answer,
                                            Elapsed(events)) ]
             /\ pc' = [ pc EXCEPT ![p] = NextAfterGenerate(args[p].use_cache) ]
             /\ batch' = Tracked(p, NextAfterGenerate(args[p].use_cache))
     \/ Fail(p, Append(ev[p], Event("generate", FALSE)), GenerateError)
  /\ UNCHANGED << cache_client, cache, args, cache_key, documents, prior, ncalls,
                  lastStore, hist, rcall, kcall, dp, expired, gcall, engine >>

\* _set_cached_answer, lines 163-173, called at line 398
Store(p) ==
  /\ pc[p] = "store"
  /\ \/ /\ ~cache_client
        /\ pc' = [ pc EXCEPT ![p] = NextAfterStore(TRUE) ]
        /\ batch' = Tracked(p, NextAfterStore(TRUE))
        /\ UNCHANGED << cache, ev, lastStore >>
     \/ /\ cache_client
        /\ pc' = [ pc EXCEPT ![p] = NextAfterStore(TRUE) ]
        /\ batch' = Tracked(p, NextAfterStore(TRUE))
        /\ ev' = [ ev EXCEPT ![p] = Append(@, Event("cache_set", TRUE)) ]
        /\ cache' = [ cache EXCEPT ![cache_key[p]] = StoredEntry(@, Dumps(result[p])) ]
        /\ lastStore' = << [ args |-> args[p], key |-> cache_key[p],
                             result |-> result[p], ttl |-> EntryTTL(result[p]) ] >>
     \/ /\ cache_client
        /\ pc' = [ pc EXCEPT ![p] = NextAfterStore(FALSE) ]
        /\ batch' = Tracked(p, NextAfterStore(FALSE))
        /\ ev' = [ ev EXCEPT ![p] = Append(@, Event("cache_set", FALSE)) ]
        /\ UNCHANGED << cache, lastStore >>
  /\ UNCHANGED << cache_client, args, cache_key, documents, result, prior, ncalls,
                  hist, rcall, kcall, dp, expired, gcall, engine >>

\* the caller takes the result (or the rejection); the slot is free again
Return(p) ==
  /\ pc[p] \in { "done", "rejected", "raised" }
  /\ pc' = [ pc EXCEPT ![p] = "idle" ]
  /\ args' = [ args EXCEPT ![p] = NoArgs ]
  /\ cache_key' = [ cache_key EXCEPT ![p] = NoKey ]
  /\ documents' = [ documents EXCEPT ![p] = <<>> ]
  /\ result' = [ result EXCEPT ![p] = NoResult ]
  /\ ev' = [ ev EXCEPT ![p] = <<>> ]
  /\ prior' = [ prior EXCEPT ![p] = <<>> ]
  /\ UNCHANGED << cache_client, cache, ncalls, lastStore, hist, rcall, batch, kcall, dp, expired, gcall, engine >>

\* the store drops an entry whose TTL (settings.cache_ttl) has run out
Expire(key) ==
  /\ cache[key] # NoEntry
  /\ cache' = [ cache EXCEPT ![key] = NoEntry ]
  /\ lastStore' = IF lastStore # <<>> /\ lastStore[1].key = key THEN <<>> ELSE lastStore
  /\ expired' = expired \cup { key }
  /\ UNCHANGED << cache_client, pc, args, cache_key, documents, result, ev, prior,
                  ncalls, hist, rcall, batch, kcall, dp, gcall, engine >>

Next ==
  \/ \E q \in Questions, k \in ArgK, t \in ArgThreshold, u \in BOOLEAN :
       ProcessQuestion(Caller, q, k, t, u)
  \/ \E q \in RequestQuestions, k \in ArgK, t \in ArgThreshold, u \in BOOLEAN :
       AskQuestion(Caller, q, k, t, u)
  \/ Embed(Caller)
  \/ Query(Caller)
  \/ Generate(Caller)
  \/ Store(Caller)
  \/ Return(Caller)
  \/ \E key \in Keys : Expire(key)

Spec == Init /\ [][Next]_vars


(* --------------- retrieve_documents called on its own ------------------ *)
\* lines 209-210: the defaults are taken, the call starts
RCall(k, t) ==
  /\ rcall.stage = "idle"
  /\ rcall' = [ stage |-> "embed", k |-> k, similarity_threshold |-> t,
                results |-> <<>>, out |-> <<>> ]

\* lines 214-217; the except clause re-raises
REmbed ==
  /\ rcall.stage = "embed"
  /\ \/ rcall' = [ rcall EXCEPT !.stage = "query" ]
     \/ rcall' = [ rcall EXCEPT !.stage = "raised" ]

\* lines 220-248
RQuery ==
  /\ rcall.stage = "query"
  /\ \/ \E results \in IndexResults(EffK(rcall.k), MaxDocs, WideDistances) :
          rcall' = [ rcall EXCEPT
                       !.stage = "returned",
                       !.results = results,
                       !.out = RetrieveDocuments(results,
                                                 EffThreshold(rcall.similarity_threshold)) ]
     \/ rcall' = [ rcall EXCEPT !.stage = "raised" ]

RDone ==
  /\ rcall.stage \in { "returned", "raised" }
  /\ rcall' = IdleRCall

RNext ==
  /\ \/ \E k \in WideArgK, t \in WideArgThreshold : RCall(k, t)
     \/ REmbed
     \/ RQuery
     \/ RDone
  /\ UNCHANGED << cache_client, cache, pc, args, cache_key, documents, result, ev,
                  prior, ncalls, lastStore, hist, batch, kcall, dp, expired, gcall, engine >>

RetrieveSpec == Init /\ [][RNext]_vars


\* the variables of the question-answering pipeline
pipelineVars == << cache_client, cache, pc, args, cache_key, documents, result, ev,
                   prior, ncalls, lastStore, hist, expired >>

(* ------------------ generate_answer called on its own ------------------ *)
\* a key the generator's JSON response lacks
Absent == -2

\* what the generator reports for prompt_eval_count and eval_count: a number,
\* a JSON null (None), or nothing
ReportedCounts == { Absent, None } \cup (0 .. MaxTokens)

\* the JSON bodies the generator answers with
Responses ==
  [ response : Answers, prompt_eval_count : ReportedCounts, eval_count : ReportedCounts ]

\* dict.get(key, default)
Get(v, default) == IF v = Absent THEN default ELSE v

\* the total taken from the completion count alone
TokenCountCompletionOnly(response) ==
  [ prompt_tokens |-> Get(response.prompt_eval_count, 0),
    completion_tokens |-> Get(response.eval_count, 0),
    total_tokens |-> Get(response.eval_count, 0) ]

\* generate_answer, lines 315-319
TokenCount(response) ==
  [ prompt_tokens |-> Get(response.prompt_eval_count, 0),
    completion_tokens |-> Get(response.eval_count, 0),
    total_tokens |-> Get(response.prompt_eval_count, 0) + Get(response.eval_count, 0) ]

\* line 318: None + int and int + None raise TypeError
AdditionRaises(response) ==
  \/ Get(response.prompt_eval_count, 0) = None
  \/ Get(response.eval_count, 0) = None

\* lines 299-303: the request is posted; it fails or the generator answers
GPost ==
  /\ gcall.stage = "idle"
  /\ \/ \E response \in Responses :
          gcall' = [ stage |-> "answered", response |-> << response >>, out |-> <<>> ]
     \/ gcall' = [ stage |-> "raised", response |-> <<>>, out |-> <<>> ]

\* lines 305-327: answer_data is built and returned; an exception is re-raised
GBuild ==
  /\ gcall.stage = "answered"
  /\ IF AdditionRaises(gcall.response[1])
       THEN gcall' = [ gcall EXCEPT !.stage = "raised" ]
       ELSE gcall' = [ gcall EXCEPT
                         !.stage = "returned",
                         !.out = << [ answer |-> gcall.response[1].response,
                                      token_count |-> TokenCount(gcall.response[1]) ] >> ]

GDone ==
  /\ gcall.stage \in { "returned", "raised" }
  /\ gcall' = IdleGCall

GNext ==
  /\ \/ GPost
     \/ GBuild
     \/ GDone
  /\ UNCHANGED << pipelineVars, rcall, batch, kcall, dp, engine >>

GenSpec == Init /\ [][GNext]_vars


(* ------------------- _generate_cache_key called on its own ------------- *)
KeyQuestions == { <<"a">>, <<" ", "a">>, <<"a", " ">>, <<"b">> }

KeyArgK == { None, 0, 1, retrieval_k }

\* _generate_cache_key(question, k) for a question a caller passes directly
KeyCall(p, question, k) ==
  /\ kcall[p].via = "none"
  /\ kcall' = [ kcall EXCEPT ![p] =
                  [ via |-> "direct", raw |-> question, question |-> question, k |-> k,
                    key |-> GenerateCacheKey(question, k) ] ]
  /\ UNCHANGED << pipelineVars, rcall, batch, dp, gcall, engine >>

\* _generate_cache_key(question, k) for the question of an accepted QuestionRequest
RequestKeyCall(p, raw, k) ==
  /\ kcall[p].via = "none"
  /\ ValidQuestion(raw)
  /\ kcall' = [ kcall EXCEPT ![p] =
                  [ via |-> "request", raw |-> raw, question |-> RequestQuestion(raw),
                    k |-> k,
                    key |-> GenerateCacheKey(RequestQuestion(raw), k) ] ]
  /\ UNCHANGED << pipelineVars, rcall, batch, dp, gcall, engine >>

KeyDone(p) ==
  /\ kcall[p].via # "none"
  /\ kcall' = [ kcall EXCEPT ![p] = IdleKCall ]
  /\ UNCHANGED << pipelineVars, rcall, batch, dp, gcall, engine >>

KNext ==
  \/ \E p \in Procs, q \in KeyQuestions, k \in KeyArgK : KeyCall(p, q, k)
  \/ \E p \in Procs, q \in RequestQuestions, k \in KeyArgK : RequestKeyCall(p, q, k)
  \/ \E p \in Procs : KeyDone(p)

KeySpec == Init /\ [][KNext]_vars


(* ------------------------- DocumentProcessor --------------------------- *)
\* files by path
Paths == { "a.txt", "b.md", "c.txt", "d.csv", "e.txt", "gone.txt" }

\* os.path.exists(file_path)
Exists(path) == path # "gone.txt"

\* Path(file_path).suffix.lower()
Suffix(path) ==
  CASE path \in { "a.txt", "c.txt", "e.txt", "gone.txt" } -> ".txt"
    [] path = "b.md" -> ".md"
    [] path = "d.csv" -> ".csv"

supported_formats == { ".pdf", ".txt", ".md", ".docx" }

\* _get_file_hash: the md5 of the content; a.txt, b.md and d.csv hold the
\* same content
GetFileHash(path) ==
  CASE path \in { "a.txt", "b.md", "d.csv" } -> "h1"
    [] path = "c.txt" -> "h2"
    [] path = "e.txt" -> "h3"
    [] path = "gone.txt" -> "h4"

\* loader.load(): the number of documents the loader finds (e.txt: none)
LoadedDocuments(path) == IF path = "e.txt" THEN 0 ELSE 1

\* split_documents: the chunk ids f"{file_hash}_{i}" of the file's chunks
ChunkIds(path) ==
  IF GetFileHash(path) = "h1"
    THEN { << "h1", 0 >>, << "h1", 1 >> }
    ELSE { << GetFileHash(path), 0 >> }

\* _is_file_processed, lines 138-147: collection.get(where file_hash);
\* an exception of the check is logged and answered False
IsFileProcessed(collection, path, raised) ==
  IF raised THEN FALSE ELSE \E id \in collection : id[1] = GetFileHash(path)

SkipMessage == "file_already_processed"
FileDoneMessage == "file_done"
FileFailedMessage == "file_failed"
FileNotFound == "file_not_found"
UnsupportedFormat == "unsupported_format"
LoadError == "load_failed"
AddError == "collection_add_failed"

\* process_file, lines 314-320
SkippedResult(path) ==
  [ success |-> TRUE, message |-> SkipMessage, file_path |-> path, stored_count |-> 0,
    chunks_created |-> None, original_docs |-> None, error |-> "" ]

\* process_file, lines 328-335, with store_documents' result, lines 286-290
StoredResult(path, docs, chunks) ==
  [ success |-> TRUE, message |-> FileDoneMessage, file_path |-> path,
    stored_count |-> chunks, chunks_created |-> chunks, original_docs |-> docs,
    error |-> "" ]

\* process_file, lines 340-348
FileErrorResult(path, e) ==
  [ success |-> FALSE, message |-> FileFailedMessage, file_path |-> path,
    stored_count |-> None, chunks_created |-> None, original_docs |-> None,
    error |-> e ]

\* dict.get(key, 0)
GetOrZero(v) == IF v = None THEN 0 ELSE v

\* the files a directory can list: supported formats only (the glob of
\* lines 374-377); a listed file may be gone when its turn comes
DirFiles == { "a.txt", "b.md", "c.txt", "e.txt", "gone.txt" }

\* the lists of n different files
RECURSIVE Listings(_)
Listings(n) ==
  IF n = 0 THEN { <<>> }
  ELSE LET shorter == Listings(n - 1)
       IN shorter \cup
          { Append(l, f) : l \in { x \in shorter : Len(x) = n - 1 },
                           f \in DirFiles }

DirListings ==
  { l \in Listings(MaxFiles) : \A i, j \in 1 .. Len(l) : i # j => l[i] # l[j] }

docFrame == << pipelineVars, rcall, batch, kcall, gcall, engine >>

\* process_file up to the loader: load_document, lines 163-173
StartFile(path) ==
  LET present == \E id \in dp.collection : id[1] = GetFileHash(path)
      begun == [ IdleFile EXCEPT !.path = path, !.present = present ]
  IN IF ~Exists(path)
       THEN dp' = [ dp EXCEPT !.file = [ begun EXCEPT !.stage = "done",
                               !.result = FileErrorResult(path, FileNotFound) ] ]
     ELSE IF Suffix(path) \notin supported_formats
       THEN dp' = [ dp EXCEPT !.file = [ begun EXCEPT !.stage = "done",
                               !.result = FileErrorResult(path, UnsupportedFormat) ] ]
     ELSE \E raised \in BOOLEAN :
            IF IsFileProcessed(dp.collection, path, raised)
              THEN dp' = [ dp EXCEPT !.file = [ begun EXCEPT !.stage = "done",
                                      !.checked = ~raised,
                                      !.result = SkippedResult(path) ] ]
              ELSE dp' = [ dp EXCEPT !.file = [ begun EXCEPT !.stage = "load",
                                      !.checked = ~raised ] ]

\* a direct call of process_file
ProcessFile(path) ==
  /\ dp.dir.stage = "idle"
  /\ dp.file.stage = "idle"
  /\ StartFile(path)
  /\ UNCHANGED docFrame

\* load_document, lines 175-199, then process_file, lines 313-320: the
\* loader runs; no documents is answered as 'already processed'
LoadDocument ==
  /\ dp.file.stage = "load"
  /\ \/ dp' = [ dp EXCEPT !.file.stage =
                            IF LoadedDocuments(dp.file.path) = 0 THEN "done" ELSE "store",
                          !.file.result =
                            IF LoadedDocuments(dp.file.path) = 0
                              THEN SkippedResult(dp.file.path) ELSE @ ]
     \/ dp' = [ dp EXCEPT !.file.stage = "done",
                          !.file.result = FileErrorResult(dp.file.path, LoadError) ]
  /\ UNCHANGED docFrame

\* store_documents, lines 259-297, then process_file, lines 323-338
StoreDocuments ==
  /\ dp.file.stage = "store"
  /\ \/ dp' = [ dp EXCEPT !.file.stage = "done",
                          !.file.result = FileErrorResult(dp.file.path, EmbedError) ]
     \/ dp' = [ dp EXCEPT !.file.stage = "done",
                          !.file.added = TRUE,
                          !.file.result = FileErrorResult(dp.file.path, AddError) ]
     \/ dp' = [ dp EXCEPT !.collection = @ \cup ChunkIds(dp.file.path),
                          !.file.stage = "done",
                          !.file.added = TRUE,
                          !.file.result =
                            StoredResult(dp.file.path, LoadedDocuments(dp.file.path),
                                         Cardinality(ChunkIds(dp.file.path))) ]
  /\ UNCHANGED docFrame

\* the caller of process_file takes the result
FileReturn ==
  /\ dp.dir.stage = "idle"
  /\ dp.file.stage = "done"
  /\ dp' = [ dp EXCEPT !.file = IdleFile ]
  /\ UNCHANGED docFrame

\* the error entries are dropped
AccumulateSuccessOnly(results, file_result) ==
  IF file_result.success
    THEN [ results EXCEPT
             !.success_count = @ + 1,
             !.total_chunks = @ + GetOrZero(file_result.chunks_created),
             !.processed_files = Append(@, file_result) ]
    ELSE results

\* process_directory, lines 386-392: one file's result is counted
Accumulate(results, file_result) ==
  IF file_result.success
    THEN [ results EXCEPT
             !.success_count = @ + 1,
             !.total_chunks = @ + GetOrZero(file_result.chunks_created),
             !.processed_files = Append(@, file_result) ]
    ELSE [ results EXCEPT
             !.error_count = @ + 1,
             !.errors = Append(@, file_result) ]

\* process_directory, lines 360-380: the files are listed
ProcessDirectory(files) ==
  /\ dp.dir.stage = "idle"
  /\ dp.file.stage = "idle"
  /\ dp' = [ dp EXCEPT !.dir = [ stage |-> "running", files |-> files, i |-> 1,
                                 results |-> [ NoDirResults EXCEPT
                                                 !.total_files = Len(files) ] ] ]
  /\ UNCHANGED docFrame

\* lines 360-361: the directory does not exist
ProcessMissingDirectory ==
  /\ dp.dir.stage = "idle"
  /\ dp.file.stage = "idle"
  /\ dp' = [ dp EXCEPT !.dir.stage = "raised" ]
  /\ UNCHANGED docFrame

\* lines 383-384: process_file is awaited for the next file
DirProcessFile ==
  /\ dp.dir.stage = "running"
  /\ dp.file.stage = "idle"
  /\ dp.dir.i <= Len(dp.dir.files)
  /\ StartFile(dp.dir.files[dp.dir.i])
  /\ UNCHANGED docFrame

\* lines 386-392
DirAccumulate ==
  /\ dp.dir.stage = "running"
  /\ dp.file.stage = "done"
  /\ dp' = [ dp EXCEPT !.dir.results = Accumulate(@, dp.file.result),
                       !.dir.i = @ + 1,
                       !.file = IdleFile ]
  /\ UNCHANGED docFrame

\* lines 394-395: the loop is over
DirFinish ==
  /\ dp.dir.stage = "running"
  /\ dp.file.stage = "idle"
  /\ dp.dir.i > Len(dp.dir.files)
  /\ dp' = [ dp EXCEPT !.dir.stage = "returned" ]
  /\ UNCHANGED docFrame

\* the caller of process_directory takes the results (or the exception)
DirReturn ==
  /\ dp.dir.stage \in { "returned", "raised" }
  /\ dp' = [ dp EXCEPT !.dir = IdleDir ]
  /\ UNCHANGED docFrame

DNext ==
  \/ \E path \in Paths : ProcessFile(path)
  \/ LoadDocument
  \/ StoreDocuments
  \/ FileReturn
  \/ \E files \in DirListings : ProcessDirectory(files)
  \/ ProcessMissingDirectory
  \/ DirProcessFile
  \/ DirAccumulate
  \/ DirFinish
  \/ DirReturn

DocSpec == Init /\ [][DNext]_vars


(* ---------------------- batch_process_questions ------------------------ *)
\* the lists of questions handed to batch_process_questions
BatchQuestions == SeqsUpTo(Questions, NumProcs)

BatchFailedMessage == "batch_item_failed"

\* str(result) of the exception a per-question task ended with
TaskError == "task_failed"

\* lines 445-450: the entry for a task that ended with an exception (the dict
\* has the keys success, message, question and error only)
TaskErrorEntry(question, e) ==
  [ success |-> FALSE, message |-> BatchFailedMessage, answer |-> "",
    question |-> question, context_documents |-> <<>>, total_time |-> 0,
    from_cache |-> FALSE, error |-> e, retrieval_stats |-> <<>> ]

\* the entry cut down to the keys of an error entry
ProcessedEntrySummary(question, raised, r) ==
  [ TaskErrorEntry(question, r.error) EXCEPT !.success = r.success ]

\* lines 443-452: one entry of processed_results
ProcessedEntry(question, raised, r) ==
  IF raised THEN TaskErrorEntry(question, TaskError) ELSE r

\* the entries in the order in which the tasks ended
ProcessedResultsAsCompleted(questions, stages, results) ==
  [ i \in 1 .. Len(questions) |->
      ProcessedEntry(questions[batch.finished[i]], stages[batch.finished[i]] = "raised",
                     results[batch.finished[i]]) ]

\* one failed position fails every position
ProcessedResultsAllOrNothing(questions, stages, results) ==
  [ i \in 1 .. Len(questions) |->
      IF \E j \in 1 .. Len(questions) : stages[j] = "raised" \/ ~results[j].success
        THEN TaskErrorEntry(questions[i], TaskError)
        ELSE results[i] ]

\* lines 438-452: gather returns the tasks' outcomes in the order of the
\* tasks, and the loop maps them position by position
ProcessedResults(questions, stages, results) ==
  [ i \in 1 .. Len(questions) |->
      ProcessedEntry(questions[i], stages[i] = "raised", results[i]) ]

\* gather without return_exceptions: the first exception is raised
GatherRaises(anyRaised) == IF anyRaised THEN "raised" ELSE "returned"

\* line 438: gather(*tasks, return_exceptions=True) returns when all tasks ended
GatherStage(anyRaised) == "returned"

\* the tasks of the batch in progress
Tasks == 1 .. Len(batch.questions)

\* lines 431-438: one coroutine per question, all handed to gather at once
BatchProcessQuestions(questions, k, t, use_cache) ==
  /\ batch.stage = "idle"
  /\ \A p \in Procs : pc[p] = "idle"
  /\ Len(questions) <= NumProcs
  /\ ncalls + Len(questions) <= MaxCalls
  /\ batch' = [ stage |-> "running", questions |-> questions, results |-> <<>>,
                finished |-> <<>> ]
  /\ pc' = [ p \in Procs |-> IF p <= Len(questions) THEN "pending" ELSE pc[p] ]
  /\ args' = [ p \in Procs |->
                 IF p <= Len(questions)
                   THEN [ question |-> questions[p], k |-> k, similarity_threshold |-> t,
                          use_cache |-> use_cache ]
                   ELSE args[p] ]
  /\ UNCHANGED << cache_client, cache, cache_key, documents, result, ev, prior, ncalls,
                  lastStore, hist, rcall, kcall, dp, expired, gcall, engine >>

\* the event loop starts the task: process_question runs up to its first
\* return or to the retrieval
RunTask(p) ==
  /\ pc[p] = "pending"
  /\ \/ Begin(p, args[p].question, args[p].k, args[p].similarity_threshold,
              args[p].use_cache, FALSE)
     \/ /\ args[p].use_cache
        /\ cache_client
        /\ Begin(p, args[p].question, args[p].k, args[p].similarity_threshold,
                 args[p].use_cache, TRUE)

\* the task ends with an exception (a process_question that raises, as the
\* one patched in by test_batch_process_questions_with_errors)
TaskRaises(p) ==
  /\ pc[p] = "pending"
  /\ pc' = [ pc EXCEPT ![p] = "raised" ]
  /\ batch' = Tracked(p, "raised")
  /\ ncalls' = ncalls + 1
  /\ UNCHANGED << cache_client, cache, args, cache_key, documents, result, ev, prior,
                  lastStore, hist, rcall, kcall, dp, expired, gcall, engine >>

\* lines 438-455: all tasks have ended; processed_results is built
Gather ==
  /\ batch.stage = "running"
  /\ \A p \in Tasks : pc[p] \in { "done", "raised" }
  /\ LET stage == GatherStage(\E p \in Tasks : pc[p] = "raised")
     IN batch' = [ batch EXCEPT
                     !.stage = stage,
                     !.results = IF stage = "returned"
                                   THEN ProcessedResults(batch.questions, pc, result)
                                   ELSE <<>> ]
  /\ UNCHANGED << cache_client, cache, pc, args, cache_key, documents, result, ev, prior,
                  ncalls, lastStore, hist, rcall, kcall, dp, expired, gcall, engine >>

\* the caller takes the list (or the exception); the slots are free again
BatchReturn ==
  /\ batch.stage \in { "returned", "raised" }
  /\ batch' = IdleBatch
  /\ pc' = [ p \in Procs |-> "idle" ]
  /\ args' = [ p \in Procs |-> NoArgs ]
  /\ cache_key' = [ p \in Procs |-> NoKey ]
  /\ documents' = [ p \in Procs |-> <<>> ]
  /\ result' = [ p \in Procs |-> NoResult ]
  /\ ev' = [ p \in Procs |-> <<>> ]
  /\ prior' = [ p \in Procs |-> <<>> ]
  /\ UNCHANGED << cache_client, cache, ncalls, lastStore, hist, rcall, kcall, dp, expired, gcall, engine >>

\* one step of the task of slot p
TaskStep(p) ==
  \/ RunTask(p)
  \/ TaskRaises(p)
  \/ Embed(p)
  \/ Query(p)
  \/ Generate(p)
  \/ Store(p)

BNext ==
  \/ \E questions \in BatchQuestions, k \in ArgK, t \in ArgThreshold, u \in BOOLEAN :
       BatchProcessQuestions(questions, k, t, u)
  \/ \E p \in Procs : RunTask(p)
  \/ \E p \in Procs : TaskRaises(p)
  \/ \E p \in Procs : Embed(p)
  \/ \E p \in Procs : Query(p)
  \/ \E p \in Procs : Generate(p)
  \/ \E p \in Procs : Store(p)
  \/ Gather
  \/ BatchReturn
  \/ \E key \in Keys : Expire(key)

BatchSpec == Init /\ [][BNext]_vars

\* the event loop runs every task that can run, and every awaited external
\* call returns or raises (the clients have timeouts)
BatchFairness ==
  /\ \A p \in Procs : WF_vars(TaskStep(p))
  /\ WF_vars(Gather)

BatchLiveSpec == BatchSpec /\ BatchFairness


(* ------------------------------ RAGEngine ------------------------------ *)
\* the operations of RAGEngine that call _check_initialized
EngineOps ==
  { "process_document", "process_directory", "answer_question",
    "batch_answer_questions", "delete_document", "get_system_stats",
    "get_supported_formats" }

\* the processors an operation calls
ProcessorsOf(name) ==
  IF name \in { "answer_question", "batch_answer_questions" } THEN { "qa_processor" }
  ELSE IF name = "get_system_stats" THEN { "document_processor", "qa_processor" }
  ELSE { "document_processor" }

\* the processors of the operation are constructed (not None)
Constructed(e, name) ==
  /\ "document_processor" \in ProcessorsOf(name) => e.document_processor
  /\ "qa_processor" \in ProcessorsOf(name) => e.qa_processor

\* the probe of health_check, lines 408-412
ProbeQuestion == << "a" >>
ProbeK == 1

engFrame == << pipelineVars, rcall, batch, kcall, dp, gcall >>

\* initialize() is called (again)
StartInitialize ==
  /\ engine.init \in { "idle", "returned", "raised" }
  /\ engine.ninit < MaxInits
  /\ engine' = [ engine EXCEPT !.init = "cache", !.cache_init = "none",
                               !.failed = "none", !.ninit = @ + 1 ]
  /\ UNCHANGED engFrame

\* lines 46-50: init_cache_client is awaited; its exception is logged only.
\* It succeeds exactly when the processors get a cache client.
InitCache ==
  /\ engine.init = "cache"
  /\ engine' = [ engine EXCEPT !.init = "construct",
                               !.cache_init = IF cache_client THEN "ok" ELSE "failed" ]
  /\ UNCHANGED engFrame

\* the exception of a constructor is swallowed and the engine declared ready
InitFailureSwallowed(e) == [ e EXCEPT !.init = "returned", !.initialized = TRUE ]

\* lines 63-65: the exception of a constructor is logged and re-raised
InitFailure(e) == [ e EXCEPT !.init = "raised" ]

\* lines 52-60, no await in between: DocumentProcessor() and QAProcessor()
\* are constructed, then initialized is set; a constructor that raises
\* leaves its field as it was
InitConstruct ==
  /\ engine.init = "construct"
  /\ \/ engine' = InitFailure([ engine EXCEPT !.failed = "document_processor" ])
     \/ engine' = InitFailure([ engine EXCEPT !.failed = "qa_processor",
                                              !.document_processor = TRUE ])
     \/ engine' = [ engine EXCEPT !.document_processor = TRUE, !.qa_processor = TRUE,
                                  !.initialized = TRUE, !.init = "returned" ]
  /\ UNCHANGED engFrame

\* the check passes whatever the state of the engine
CheckInitializedAlways(e) == TRUE

\* _check_initialized, lines 74-75: FALSE stands for the RuntimeError
CheckInitialized(e) == e.initialized

\* an operation is called: _check_initialized, then the processor.  A call
\* on a processor that is None ends in the operation's except clause
\* (get_supported_formats has none); answer_question goes on to
\* process_question, the other processors' methods return or raise into the
\* except clause, which returns an error dict
EngineCall(name) ==
  /\ engine.call.stage = "idle"
  /\ \/ /\ ~CheckInitialized(engine)
        /\ engine' = [ engine EXCEPT !.call =
                         [ IdleCall EXCEPT !.name = name, !.stage = "raised",
                                           !.initialized = engine.initialized,
                                           !.outcome = "RuntimeError" ] ]
     \/ /\ CheckInitialized(engine)
        /\ ~Constructed(engine, name)
        /\ engine' = [ engine EXCEPT !.call =
                         [ IdleCall EXCEPT
                             !.name = name,
                             !.initialized = engine.initialized,
                             !.stage = IF name = "get_supported_formats"
                                         THEN "raised" ELSE "returned",
                             !.outcome = IF name = "get_supported_formats"
                                           THEN "AttributeError" ELSE "error_result" ] ]
     \/ /\ CheckInitialized(engine)
        /\ Constructed(engine, name)
        /\ \E outcome \in { "result", "error_result" } :
             engine' = [ engine EXCEPT !.call =
                           [ IdleCall EXCEPT
                               !.name = name,
                               !.initialized = engine.initialized,
                               !.invoked = ProcessorsOf(name),
                               !.stage = IF name = "answer_question"
                                           THEN "calling" ELSE "returned",
                               !.outcome = IF name = "answer_question"
                                             THEN "none" ELSE outcome ] ]
  /\ UNCHANGED engFrame

\* answer_question, lines 198-203: process_question is awaited
EngineProcessQuestion ==
  /\ engine.call.stage = "calling"
  /\ \E k \in ArgK, u \in BOOLEAN :
       ProcessQuestion(Caller, ProbeQuestion, k, None, u)

\* answer_question, lines 205-221: the result of process_question is returned
EngineTakeAnswer ==
  /\ engine.call.stage = "calling"
  /\ pc[Caller] = "done"
  /\ engine' = [ engine EXCEPT !.call.stage = "taken", !.call.outcome = "result",
                               !.call.probe = << [ result |-> result[Caller],
                                                   events |-> ev[Caller] ] >> ]
  /\ UNCHANGED engFrame

\* process_question has handed its result to the engine
EngineProcessReturn ==
  /\ engine.call.stage \in { "taken", "probe_taken" }
  /\ Return(Caller)

EngineAnswerReturn ==
  /\ engine.call.stage = "taken"
  /\ pc[Caller] = "idle"
  /\ engine' = [ engine EXCEPT !.call.stage = "returned" ]
  /\ UNCHANGED engFrame

\* health_check, lines 374-389: an engine that is not initialized is
\* unhealthy and nothing else is checked
HealthStart ==
  /\ engine.call.stage = "idle"
  /\ engine' = [ engine EXCEPT !.call =
       [ IdleCall EXCEPT
           !.name = "health_check",
           !.initialized = engine.initialized,
           !.stage = IF engine.initialized THEN "vector_database" ELSE "returned",
           !.outcome = IF engine.initialized THEN "none" ELSE "result",
           !.health = << [ status |-> IF engine.initialized THEN "healthy" ELSE "unhealthy",
                           initialization |-> IF engine.initialized THEN "healthy"
                                              ELSE "unhealthy",
                           vector_database |-> "none", llm |-> "none",
                           cache |-> "none" ] >> ] ]
  /\ UNCHANGED engFrame

\* lines 392-403: get_collection_stats returns a dict also when the
\* collection raises (document_processor.py 408-417), so the except clause
\* of the engine is not reached
HealthVectorDatabase ==
  /\ engine.call.stage = "vector_database"
  /\ \E collection_raises \in BOOLEAN :
       engine' = [ engine EXCEPT !.call.stage = "probe",
                                 !.call.invoked = { "document_processor" },
                                 !.call.health[1].vector_database = "healthy" ]
  /\ UNCHANGED engFrame

\* lines 408-412: process_question("...", k=1, use_cache=False) is awaited
HealthProbe ==
  /\ engine.call.stage = "probe"
  /\ ProcessQuestion(Caller, ProbeQuestion, ProbeK, None, FALSE)

\* lines 413-422: healthy unless process_question raised; test_result is
\* not looked at
LLMStatus(raised, probe) == IF raised THEN "unhealthy" ELSE "healthy"

HealthTakeProbe ==
  /\ engine.call.stage = "probe"
  /\ pc[Caller] \in { "done", "raised" }
  /\ LET llm == LLMStatus(pc[Caller] = "raised", result[Caller])
     IN engine' = [ engine EXCEPT
                      !.call.stage = "probe_taken",
                      !.call.invoked = @ \cup { "qa_processor" },
                      !.call.probe = << [ result |-> result[Caller],
                                          events |-> ev[Caller] ] >>,
                      !.call.health[1].llm = llm,
                      !.call.health[1].status = IF llm = "unhealthy" THEN "unhealthy"
                                                ELSE @ ]
  /\ UNCHANGED engFrame

\* lines 425-442: the cache is pinged; its failure leaves status alone
HealthCache ==
  /\ engine.call.stage = "probe_taken"
  /\ pc[Caller] = "idle"
  /\ \E ping_ok \in BOOLEAN :
       engine' = [ engine EXCEPT
                     !.call.stage = "returned",
                     !.call.outcome = "result",
                     !.call.health[1].cache =
                        IF ~cache_client THEN "disabled"
                        ELSE IF ping_ok THEN "healthy" ELSE "unhealthy" ]
  /\ UNCHANGED engFrame

\* the caller takes what the operation returned or raised
EngineCallDone ==
  /\ engine.call.stage \in { "returned", "raised" }
  /\ engine' = [ engine EXCEPT !.call = IdleCall ]
  /\ UNCHANGED engFrame

ENext ==
  \/ StartInitialize
  \/ InitCache
  \/ InitConstruct
  \/ \E name \in EngineOps : EngineCall(name)
  \/ EngineProcessQuestion
  \/ Embed(Caller)
  \/ Query(Caller)
  \/ Generate(Caller)
  \/ Store(Caller)
  \/ EngineTakeAnswer
  \/ EngineProcessReturn
  \/ EngineAnswerReturn
  \/ HealthStart
  \/ HealthVectorDatabase
  \/ HealthProbe
  \/ HealthTakeProbe
  \/ HealthCache
  \/ EngineCallDone

EngineSpec == Init /\ [][ENext]_vars


(* ======================= properties of retrieve_documents ============== *)

RankContiguity ==
  (rcall.stage = "returned" /\ rcall.out # <<>>) =>
    /\ \A i \in 1 .. Len(rcall.out) : rcall.out[i].rank = i
    /\ \A i, j \in 1 .. Len(rcall.out) :
         rcall.out[i].rank < rcall.out[j].rank =>
           rcall.out[i].similarity_score >= rcall.out[j].similarity_score


(* ======================= properties of process_question ================ *)
ExternalFailure == { "embed", "query", "generate" }

\* retrieval or generation raised in the call of slot p
Failed(p) == \E i \in 1 .. Len(ev[p]) : ev[p][i].op \in ExternalFailure /\ ~ev[p][i].ok

\* the retrieval of the call of slot p returned, with zero documents
ZeroDocs(p) ==
  /\ \E i \in 1 .. Len(ev[p]) : ev[p][i] = Event("query", TRUE)
  /\ documents[p] = <<>>

ErrorOf(op) ==
  CASE op = "embed" -> EmbedError
    [] op = "query" -> QueryError
    [] op = "generate" -> GenerateError

\* C3: with a working cache and use_cache=true, a call whose arguments equal
\* those of the call that last computed and stored a result (at least one
\* document, generation succeeded, entry not expired since) is answered from
\* the cache: the first result had from_cache=false, the second has
\* from_cache=true and the same answer text.
CacheDeterminism ==
  \A p \in Procs :
    ( /\ pc[p] = "done"
      /\ args[p].use_cache
      /\ prior[p] # <<>>
      /\ prior[p][1].args = args[p]
      /\ ev[p] # <<>>
      /\ ev[p][1] = Event("cache_get", TRUE) )
    => /\ prior[p][1].result.success
       /\ Len(prior[p][1].result.context_documents) >= 1
       /\ ~prior[p][1].result.from_cache
       /\ result[p].from_cache
       /\ result[p].answer = prior[p][1].result.answer

\* the second of two identical calls, replaying the generator's second answer
CacheDeterminismWitness ==
  /\ pc[Caller] = "done"
  /\ ncalls = 2
  /\ args[Caller].use_cache
  /\ prior[Caller] # <<>>
  /\ prior[Caller][1].args = args[Caller]
  /\ result[Caller].from_cache
  /\ result[Caller].answer = "answer2"

\* C4: a call whose retrieval returned zero documents performs no cache
\* write; and as long as every retrieval made for a key returned zero
\* documents (or none was made), no call on that key reports from_cache=true
\* and the key has no entry.
NoCacheOnEmpty ==
  /\ \A p \in Procs :
       (pc[p] # "idle" /\ ZeroDocs(p)) =>
         /\ ~Invoked(p, "cache_set")
         /\ pc[p] # "store"
  /\ \A p \in Procs :
       (pc[p] = "done" /\ result[p].from_cache) => hist[cache_key[p]] = "nonempty"
  /\ \A key \in Keys : hist[key] # "nonempty" => cache[key] = NoEntry

\* after a zero-document call on the key, a call on the same key with a
\* working cache has looked the key up and missed, and goes on to retrieval
NoCacheOnEmptyWitness ==
  /\ pc[Caller] = "query"
  /\ args[Caller].use_cache
  /\ ev[Caller] = << Event("cache_get", TRUE), Event("embed", TRUE) >>
  /\ hist[cache_key[Caller]] = "empty"

KeySeparatesOptions ==
  \A p \in Procs :
    ( /\ pc[p] = "done"
      /\ result[p].from_cache
      /\ prior[p] # <<>>
      /\ prior[p][1].key = cache_key[p] )
    => /\ EffK(prior[p][1].args.k) = EffK(args[p].k)
       /\ EffThreshold(prior[p][1].args.similarity_threshold)
            = EffThreshold(args[p].similarity_threshold)

NeverRaises ==
  \A p \in Procs :
    /\ pc[p] \in { "idle", "rejected", "embed", "query", "generate", "store", "done" }
    /\ Failed(p) =>
         /\ pc[p] = "done"
         /\ ~result[p].success
         /\ ~result[p].from_cache
         /\ result[p].answer = ErrorAnswer
         /\ result[p].message = FailedMessage
         /\ result[p].error = ErrorOf(ev[p][Len(ev[p])].op)
         /\ result[p].question = args[p].question

\* the index query raised and the call returned the degraded result
NeverRaisesWitness ==
  /\ pc[Caller] = "done"
  /\ Failed(Caller)
  /\ result[Caller].error = QueryError

NoDocsResponse ==
  \A p \in Procs :
    (pc[p] # "idle" /\ ZeroDocs(p)) =>
      /\ pc[p] = "done"
      /\ ~result[p].success
      /\ result[p].answer = NoDocsAnswer
      /\ result[p].message = NoDocsMessage
      /\ result[p].context_documents = <<>>
      /\ ~result[p].from_cache
      /\ ~Invoked(p, "generate")

\* the index answered, every document fell below the threshold
NoDocsWitness ==
  /\ pc[Caller] = "done"
  /\ ZeroDocs(Caller)
  /\ args[Caller].similarity_threshold = None
  /\ result[Caller].answer = NoDocsAnswer

\* the last external operation the call of slot p awaited
LastEvent(p) == ev[p][Len(ev[p])]

\* C11: a failure of the cache read (the store raises, or the stored text
\* cannot be deserialized) counts as a miss: the call goes on to retrieval,
\* never raises, never reports from_cache=true, never ends on the read
\* failure itself, and has success=false only if its own retrieval or
\* generation raised or its retrieval returned zero documents; otherwise it
\* returns the freshly computed result.
ReadFailureIsMiss ==
  \A p \in Procs :
    (ev[p] # <<>> /\ ev[p][1] = Event("cache_get", FALSE)) =>
      /\ pc[p] # "raised"
      /\ ~result[p].from_cache
      /\ Len(ev[p]) = 1 => pc[p] = "embed"
      /\ pc[p] = "done" =>
           /\ Len(ev[p]) >= 2
           /\ ~result[p].success => (Failed(p) \/ ZeroDocs(p))
           /\ result[p].success =>
                /\ Invoked(p, "query")
                /\ Invoked(p, "generate")
                /\ result[p].context_documents = documents[p]
                /\ result[p].answer \in Answers

\* the read failed although the key had an entry; the call computed a fresh
\* result and stored it
ReadFailureWitness ==
  /\ pc[Caller] = "done"
  /\ ev[Caller] = << Event("cache_get", FALSE), Event("embed", TRUE), Event("query", TRUE),
                     Event("generate", TRUE), Event("cache_set", TRUE) >>
  /\ prior[Caller] # <<>>
  /\ prior[Caller][1].key = cache_key[Caller]
  /\ result[Caller].success
  /\ ~result[Caller].from_cache

\* C12: a failure of the cache write at the end of a successful call leaves
\* the computed result as it is (success=true, from_cache=false), the call
\* returns it, and the cache gets no new entry.
WriteFailureKeepsResult ==
  /\ [] (\A p \in Procs :
           (ev[p] # <<>> /\ LastEvent(p) = Event("cache_set", FALSE)) =>
             /\ pc[p] = "done"
             /\ result[p].success
             /\ ~result[p].from_cache
             /\ result[p].answer \in Answers
             /\ result[p].context_documents = documents[p])
  /\ [][ \A p \in Procs :
           (pc[p] = "store" /\ ev'[p] # ev[p] /\ ~ev'[p][Len(ev'[p])].ok) =>
             /\ result' = result
             /\ cache' = cache ]_vars

\* the write failed; the call is over with its result and the key has no entry
WriteFailureWitness ==
  /\ pc[Caller] = "done"
  /\ LastEvent(Caller) = Event("cache_set", FALSE)
  /\ result[Caller].success
  /\ cache[cache_key[Caller]] = NoEntry

\* C13: a call with use_cache=false reads and writes no cache entry on any
\* path and never reports from_cache=true, also when the key has an entry;
\* the only steps that change the cache are the write of a call with
\* use_cache=true and the expiry of an entry.
NoCacheWhenDisabled ==
  /\ [] (\A p \in Procs :
           (pc[p] # "idle" /\ ~args[p].use_cache) =>
             /\ ~Invoked(p, "cache_get")
             /\ ~Invoked(p, "cache_set")
             /\ pc[p] # "store"
             /\ ~result[p].from_cache)
  /\ [][ cache' # cache =>
           \/ \E key \in Keys : cache[key] # NoEntry /\ cache'[key] = NoEntry
           \/ \E p \in Procs : pc[p] = "store" /\ args[p].use_cache ]_vars

\* a call with use_cache=false computed a result while its key had an entry
NoCacheWhenDisabledWitness ==
  /\ pc[Caller] = "done"
  /\ ~args[Caller].use_cache
  /\ cache[cache_key[Caller]] # NoEntry
  /\ ev[Caller] = << Event("embed", TRUE), Event("query", TRUE), Event("generate", TRUE) >>
  /\ result[Caller].success

\* the place of an external operation in the order of process_question
StepRank(op) ==
  CASE op = "cache_get" -> 1
    [] op = "embed" -> 2
    [] op = "query" -> 3
    [] op = "generate" -> 4
    [] op = "cache_set" -> 5

\* C19: within one call the external operations are awaited in the order
\* cache lookup, embedding, index query, generation, cache write: each
\* operation starts only after the one before it has returned, none is
\* repeated or taken out of order, the query needs the embedding, the
\* generation needs the query, the write needs the generation, and an
\* operation that raised (other than the lookup) is the call's last.
StepOrder ==
  \A p \in Procs :
    /\ \A i, j \in 1 .. Len(ev[p]) :
         i < j =>
           /\ StepRank(ev[p][i].op) < StepRank(ev[p][j].op)
           /\ ev[p][i].ok \/ ev[p][i].op = "cache_get"
    /\ \A i \in 1 .. Len(ev[p]) :
         /\ ev[p][i].op = "cache_get" => args[p].use_cache
         /\ ev[p][i].op = "query" => (i > 1 /\ ev[p][i - 1] = Event("embed", TRUE))
         /\ ev[p][i].op = "generate" => (i > 1 /\ ev[p][i - 1] = Event("query", TRUE))
         /\ ev[p][i].op = "cache_set" =>
              (i > 1 /\ ev[p][i - 1] = Event("generate", TRUE) /\ args[p].use_cache)
    /\ pc[p] = "embed" => \A i \in 1 .. Len(ev[p]) : ev[p][i].op = "cache_get"
    /\ pc[p] = "query" => (ev[p] # <<>> /\ LastEvent(p) = Event("embed", TRUE))
    /\ pc[p] = "generate" => (ev[p] # <<>> /\ LastEvent(p) = Event("query", TRUE))
    /\ pc[p] = "store" => (ev[p] # <<>> /\ LastEvent(p) = Event("generate", TRUE))

\* a call that went through all five operations
StepOrderWitness ==
  /\ pc[Caller] = "done"
  /\ ev[Caller] = << Event("cache_get", TRUE), Event("embed", TRUE), Event("query", TRUE),
                     Event("generate", TRUE), Event("cache_set", TRUE) >>


(* =================== properties of batch_process_questions ============= *)

\* C14: the list batch_process_questions returns has the length of
\* questions, and its entry at position i is the outcome of the task created
\* for questions[i] (the value that task returned, carrying questions[i]),
\* whatever the order in which the tasks ended and also when a question
\* occurs at several positions.
BatchPositional ==
  batch.stage = "returned" =>
    /\ Len(batch.results) = Len(batch.questions)
    /\ \A i \in Tasks :
         /\ batch.results[i].question = batch.questions[i]
         /\ pc[i] = "done" => batch.results[i] = result[i]

\* the same question at both positions; the second task ended first and got
\* another answer than the first
BatchPositionalWitness ==
  /\ batch.stage = "returned"
  /\ batch.questions = << <<"a">>, <<"a">> >>
  /\ batch.finished = << 2, 1 >>
  /\ batch.results[1].answer = "answer1"
  /\ batch.results[2].answer = "answer2"

\* C15: batch_process_questions does not raise when a per-question task ends
\* with an exception; that task's position holds an entry with success=false,
\* the question of that position and the text of the exception.
BatchNeverRaises ==
  /\ batch.stage # "raised"
  /\ batch.stage = "returned" =>
       \A i \in Tasks :
         pc[i] = "raised" =>
           /\ ~batch.results[i].success
           /\ batch.results[i].question = batch.questions[i]
           /\ batch.results[i].error = TaskError
           /\ batch.results[i].message = BatchFailedMessage

\* the second task ended with an exception, the first with a good result
BatchNeverRaisesWitness ==
  /\ batch.stage = "returned"
  /\ Len(batch.questions) = 2
  /\ pc[2] = "raised"
  /\ batch.results[1].success
  /\ batch.results[2].error = TaskError

\* C16: in a batch, a step of one task (its failure included) leaves every
\* other task as it is; a position whose own lookup hit, or whose own
\* retrieval found documents and whose own generation succeeded, holds
\* success=true whatever happened at the other positions; and every batch
\* that was started returns.
BatchIsolation ==
  /\ [] (batch.stage = "returned" =>
           \A i \in Tasks :
             ( /\ pc[i] = "done"
               /\ \/ ev[i] = << Event("cache_get", TRUE) >>
                  \/ /\ Invoked(i, "generate")
                     /\ ~Failed(i) )
             => batch.results[i].success)
  /\ [][ \A p \in Procs :
           (pc'[p] # pc[p] /\ batch.stage = "running" /\ batch'.stage = "running") =>
             \A r \in Procs \ { p } :
               /\ pc'[r] = pc[r]
               /\ result'[r] = result[r]
               /\ ev'[r] = ev[r]
               /\ documents'[r] = documents[r] ]_vars
  /\ (batch.stage = "running") ~> (batch.stage = "returned")

\* the first task's index query raised before the second task ended with a
\* good result
BatchIsolationWitness ==
  /\ batch.stage = "returned"
  /\ batch.finished = << 1, 2 >>
  /\ batch.results[1].error = QueryError
  /\ batch.results[2].success
  /\ ~batch.results[2].from_cache

\* C17: the list returned for a one-question batch holds exactly the value
\* the process_question call made for that question returned: a cache hit,
\* the no-documents result, the computed result or the error result of that
\* call, with all its fields.
SingletonBatch ==
  (batch.stage = "returned" /\ Len(batch.questions) = 1 /\ pc[1] = "done") =>
    /\ batch.results = << result[1] >>
    /\ args[1].question = batch.questions[1]
    /\ IF result[1].from_cache
         THEN /\ ev[1] = << Event("cache_get", TRUE) >>
              /\ cache[cache_key[1]] # NoEntry =>
                   result[1] = CacheHitResult(Loads(cache[cache_key[1]]), 1)
         ELSE IF Failed(1)
           THEN result[1] = ErrorResult(args[1].question, ErrorOf(LastEvent(1).op),
                                        Len(ev[1]))
         ELSE IF ZeroDocs(1)
           THEN result[1] = NoDocsResult(args[1].question, Len(ev[1]))
         ELSE \E answer \in Answers, n \in { Len(ev[1]), Len(ev[1]) - 1 } :
                result[1] = SuccessResult(args[1].question, documents[1],
                                          args[1].similarity_threshold, answer, n)

\* a one-question batch answered from the cache
SingletonBatchWitness ==
  /\ batch.stage = "returned"
  /\ Len(batch.questions) = 1
  /\ batch.results[1].from_cache
  /\ batch.results[1].success
  /\ batch.results[1].context_documents # <<>>

\* the tasks of the batch that have started and not ended
InFlight == { p \in Tasks : pc[p] \in { "embed", "query", "generate", "store" } }

\* C18: the tasks of a batch that are in flight at the same time stay below
\* a maximum, whatever maximum smaller than the largest batch is configured:
\* some question of a largest batch waits while the others are in flight.
InFlightBounded == Cardinality(InFlight) <= NumProcs - 1

\* C20: calls on one key that run concurrently are not coalesced, and the
\* key holds what the last write put there: while the entry lives it is the
\* serialized result of the last writer, and of two tasks that both wrote
\* the key it is the result of the one that wrote (and so ended) last.
LastWriteWins ==
  /\ lastStore # <<>> => cache[lastStore[1].key] = Dumps(lastStore[1].result)
  /\ \A p, r \in Tasks :
       ( /\ p # r
         /\ pc[p] = "done"
         /\ pc[r] = "done"
         /\ cache_key[p] = cache_key[r]
         /\ ev[p] # <<>>
         /\ ev[r] # <<>>
         /\ LastEvent(p) = Event("cache_set", TRUE)
         /\ LastEvent(r) = Event("cache_set", TRUE)
         /\ \E i, j \in 1 .. Len(batch.finished) :
              i < j /\ batch.finished[i] = p /\ batch.finished[j] = r
         /\ cache[cache_key[r]] # NoEntry )
       => cache[cache_key[r]] = Dumps(result[r])

\* two tasks on the same key both missed, both computed and both wrote; the
\* key holds the result of the first task, whose write came last
LastWriteWinsWitness ==
  /\ batch.stage = "returned"
  /\ cache_key[1] = cache_key[2]
  /\ \A p \in { 1, 2 } :
       ev[p] = << Event("cache_get", TRUE), Event("embed", TRUE), Event("query", TRUE),
                  Event("generate", TRUE), Event("cache_set", TRUE) >>
  /\ batch.finished = << 2, 1 >>
  /\ result[1].answer # result[2].answer
  /\ cache[cache_key[1]] = Dumps(result[1])
  /\ cache[cache_key[1]] # Dumps(result[2])


(* ===================== properties of _generate_cache_key =============== *)

\* C23: _generate_cache_key gives the same key for the same (question, k),
\* every key starts with "qa:", and the key for k omitted is the key for k
\* equal to the configured retrieval_k.
KeyDeterministic ==
  \A p, r \in Procs :
    (kcall[p].via # "none" /\ kcall[r].via # "none") =>
      /\ kcall[p].key[1] = "qa:"
      /\ (kcall[p].question = kcall[r].question /\ kcall[p].k = kcall[r].k) =>
           kcall[p].key = kcall[r].key
      /\ ( /\ kcall[p].question = kcall[r].question
           /\ kcall[p].k = None
           /\ kcall[r].k = retrieval_k )
         => kcall[p].key = kcall[r].key

\* the same question once with k omitted and once with k = retrieval_k
KeyDeterministicWitness ==
  /\ kcall[1].via = "direct"
  /\ kcall[2].via = "direct"
  /\ kcall[1].question = kcall[2].question
  /\ kcall[1].k = None
  /\ kcall[2].k = retrieval_k
  /\ kcall[1].key = kcall[2].key

SkipsProcessedFile ==
  ( /\ dp.file.stage = "done"
    /\ dp.file.present
    /\ Exists(dp.file.path)
    /\ Suffix(dp.file.path) \in supported_formats )
  => /\ dp.file.result.success
     /\ dp.file.result.stored_count = 0
     /\ ~dp.file.added

RECURSIVE SumChunks(_)
SumChunks(file_results) ==
  IF file_results = <<>> THEN 0
  ELSE GetOrZero(Head(file_results).chunks_created) + SumChunks(Tail(file_results))

\* the paths of a list of file results
ResultPaths(file_results) ==
  { file_results[i].file_path : i \in 1 .. Len(file_results) }

\* C26: in every result of process_directory success_count + error_count =
\* total_files = the number of files listed, len(processed_files) =
\* success_count, len(errors) = error_count, total_chunks is the sum of
\* chunks_created over processed_files, and every listed file has its entry
\* in processed_files or errors whatever happened to the files before it;
\* while the loop runs the counts add up to the number of files taken so far.
DirectoryAccounting ==
  LET r == dp.dir.results
  IN /\ dp.dir.stage \in { "running", "returned" } =>
          /\ r.total_files = Len(dp.dir.files)
          /\ Len(r.processed_files) = r.success_count
          /\ Len(r.errors) = r.error_count
          /\ r.total_chunks = SumChunks(r.processed_files)
          /\ r.success_count + r.error_count = dp.dir.i - 1
          /\ \A i \in 1 .. Len(r.processed_files) : r.processed_files[i].success
          /\ \A i \in 1 .. Len(r.errors) : ~r.errors[i].success
     /\ dp.dir.stage = "returned" =>
          /\ r.success_count + r.error_count = r.total_files
          /\ ResultPaths(r.processed_files) \cup ResultPaths(r.errors)
               = { dp.dir.files[i] : i \in 1 .. Len(dp.dir.files) }

\* the first file failed, the second was stored with its two chunks
DirectoryAccountingWitness ==
  /\ dp.dir.stage = "returned"
  /\ Len(dp.dir.files) = 2
  /\ dp.dir.results.error_count = 1
  /\ dp.dir.results.success_count = 1
  /\ dp.dir.results.errors[1].file_path = dp.dir.files[1]
  /\ dp.dir.results.processed_files[1].file_path = dp.dir.files[2]
  /\ dp.dir.results.total_chunks = 2


(* ================= further properties of process_question ============== *)

\* C21: a key that holds a live entry is never written again: every cache
\* write that succeeds finds its key without an entry.
WriteOncePerKey ==
  [][ \A p \in Procs :
        ( /\ pc[p] = "store"
          /\ ev'[p] # ev[p]
          /\ ev'[p][Len(ev'[p])] = Event("cache_set", TRUE) )
        => cache[cache_key[p]] = NoEntry ]_vars

\* C22: the degraded result tells the category of the failure: the answer of
\* a call whose generation failed differs from the answer given for an
\* embedding or index failure and from the no-documents answer.
FailureCategoryDistinct ==
  \A p \in Procs :
    (pc[p] = "done" /\ Failed(p) /\ LastEvent(p).op = "generate") =>
      /\ result[p].answer #
           ErrorResult(args[p].question, EmbedError, Len(ev[p])).answer
      /\ result[p].answer #
           ErrorResult(args[p].question, QueryError, Len(ev[p])).answer
      /\ result[p].answer # NoDocsAnswer

\* C24: without a cache client a call with use_cache=true awaits no cache
\* read and no cache write, the cache stays empty, no result has
\* from_cache=true, and a call whose retrieval found documents and whose
\* generation succeeded returns success=true, however often it is repeated.
NoClientNoCache ==
  ~cache_client =>
    /\ \A key \in Keys : cache[key] = NoEntry
    /\ lastStore = <<>>
    /\ \A p \in Procs :
         /\ ~Invoked(p, "cache_get")
         /\ ~Invoked(p, "cache_set")
         /\ ~result[p].from_cache
         /\ (pc[p] = "done" /\ Invoked(p, "generate") /\ ~Failed(p)) =>
              /\ result[p].success
              /\ ev[p] = << Event("embed", TRUE), Event("query", TRUE),
                            Event("generate", TRUE) >>

\* without a client, a second call on a key whose earlier retrieval found
\* documents has missed and goes on to retrieval
NoClientNoCacheWitness ==
  /\ ~cache_client
  /\ ncalls = 2
  /\ pc[Caller] = "embed"
  /\ args[Caller].use_cache
  /\ ev[Caller] = <<>>
  /\ hist[cache_key[Caller]] = "nonempty"

(* ========================= expiry of cache entries ====================== *)

\* the events of a call that missed, retrieved, generated and stored
FullRun ==
  << Event("cache_get", TRUE), Event("embed", TRUE), Event("query", TRUE),
     Event("generate", TRUE), Event("cache_set", TRUE) >>

\* the step of slot p is the start of a call with use_cache=true on a key the
\* entry of which has expired and has not been written again
StartsOnExpired(p) ==
  /\ pc[p] = "idle"
  /\ pc'[p] \in { "embed", "done" }
  /\ args'[p].use_cache
  /\ cache_key'[p] \in expired
  /\ cache[cache_key'[p]] = NoEntry

\* C30: every cache write of process_question carries the configured TTL
\* (settings.cache_ttl), whatever the entry; a call with use_cache=true on a
\* key whose entry has expired (and was not written again) misses and goes on
\* to the retrieval, its result has from_cache=false, and the write that ends
\* it leaves the key holding the serialization of this call's result.
ExpiryRecomputes ==
  /\ [](lastStore # <<>> => lastStore[1].ttl = cache_ttl)
  /\ [][\A p \in Procs :
          /\ StartsOnExpired(p) =>
               /\ pc'[p] = "embed"
               /\ result'[p] = result[p]
               /\ ev'[p] \in { << Event("cache_get", TRUE) >>,
                               << Event("cache_get", FALSE) >> }
          /\ (pc[p] = "store" /\ ev'[p] = Append(ev[p], Event("cache_set", TRUE))) =>
               /\ ~result'[p].from_cache
               /\ cache'[cache_key[p]] = Dumps(result'[p])
               /\ lastStore' # <<>>
               /\ lastStore'[1].key = cache_key[p]
               /\ lastStore'[1].ttl = cache_ttl]_vars

\* a second call on a key whose entry expired has missed, retrieved,
\* generated and stored a fresh entry
ExpiryRecomputesWitness ==
  /\ ncalls = 2
  /\ pc[Caller] = "done"
  /\ args[Caller].use_cache
  /\ ev[Caller] = FullRun
  /\ cache_key[Caller] \in expired
  /\ ~result[Caller].from_cache
  /\ result[Caller].success
  /\ cache[cache_key[Caller]] = Dumps(result[Caller])
  /\ lastStore # <<>>
  /\ lastStore[1].ttl = cache_ttl

(* ================ further properties of retrieve_documents ============= *)

\* the items of results from position i on that reach the threshold, in order
RECURSIVE KeptFrom(_, _, _)
KeptFrom(results, i, threshold) ==
  IF i > Len(results) THEN <<>>
  ELSE IF One - results[i] >= threshold
    THEN << [ content |-> i, similarity_score |-> One - results[i] ] >>
           \o KeptFrom(results, i + 1, threshold)
    ELSE KeptFrom(results, i + 1, threshold)

\* a retrieve_documents result without the rank field
Unranked(docs) ==
  [ i \in 1 .. Len(docs) |->
      [ content |-> docs[i].content, similarity_score |-> docs[i].similarity_score ] ]

ThresholdExact ==
  (rcall.stage = "returned" /\ rcall.similarity_threshold # None) =>
    Unranked(rcall.out) = KeptFrom(rcall.results, 1, rcall.similarity_threshold)

(* ============================ no retries =============================== *)

\* how often the call of slot p has invoked the external operation op
Invocations(p, op) == Cardinality({ i \in 1 .. Len(ev[p]) : ev[p][i].op = op })

\* C31: in one process_question call the embedder, the index query and the
\* generator are each invoked at most once, and a failure of one of them is
\* the last external call of that call: nothing is invoked after it, the
\* cache write included.
NoRetries ==
  \A p \in Procs :
    /\ \A op \in ExternalFailure : Invocations(p, op) <= 1
    /\ \A i \in 1 .. Len(ev[p]) :
         (ev[p][i].op \in ExternalFailure /\ ~ev[p][i].ok) =>
           /\ i = Len(ev[p])
           /\ pc[p] = "done"

\* a call with use_cache=true whose index query failed has returned
NoRetriesWitness ==
  /\ pc[Caller] = "done"
  /\ args[Caller].use_cache
  /\ ev[Caller] = << Event("cache_get", TRUE), Event("embed", TRUE),
                     Event("query", FALSE) >>
  /\ result[Caller].error = QueryError

(* ============================ token usage ============================== *)

\* C32: in every result of generate_answer total_tokens = prompt_tokens +
\* completion_tokens, each counter is the value the generator reported, a
\* counter the generator did not report is 0, and an unreported counter
\* never makes the call fail (an answered call fails only on a null counter).
TokenAccounting ==
  /\ gcall.stage = "returned" =>
       LET response == gcall.response[1]
           token_count == gcall.out[1].token_count
       IN /\ token_count.total_tokens =
               token_count.prompt_tokens + token_count.completion_tokens
          /\ token_count.prompt_tokens =
               (IF response.prompt_eval_count = Absent THEN 0
                ELSE response.prompt_eval_count)
          /\ token_count.completion_tokens =
               (IF response.eval_count = Absent THEN 0 ELSE response.eval_count)
          /\ token_count.prompt_tokens >= 0
          /\ token_count.completion_tokens >= 0
  /\ (gcall.stage = "raised" /\ gcall.response # <<>>) =>
       \/ gcall.response[1].prompt_eval_count = None
       \/ gcall.response[1].eval_count = None

\* a call returned although the generator reported no prompt count: the
\* counter is 0 and the total is the completion count
TokenAccountingWitness ==
  /\ gcall.stage = "returned"
  /\ gcall.response[1].prompt_eval_count = Absent
  /\ gcall.response[1].eval_count = MaxTokens
  /\ gcall.out[1].token_count.prompt_tokens = 0
  /\ gcall.out[1].token_count.total_tokens = MaxTokens

(* ========================== retrieval_stats ============================= *)

\* C33: in every success=true, from_cache=false result of process_question
\* retrieval_stats.retrieved_count is the number of documents the retrieval
\* returned, is at least 1 and is the length of context_documents, and
\* retrieval_stats.similarity_threshold is the threshold the retrieval
\* filtered with: the effective threshold of the call, which every context
\* document reaches.
RetrievalStatsConsistent ==
  \A p \in Procs :
    (pc[p] \in { "store", "done" } /\ result[p].success /\ ~result[p].from_cache) =>
      /\ result[p].retrieval_stats # <<>>
      /\ result[p].retrieval_stats[1].retrieved_count = Len(documents[p])
      /\ result[p].retrieval_stats[1].retrieved_count >= 1
      /\ result[p].retrieval_stats[1].retrieved_count = Len(result[p].context_documents)
      /\ result[p].context_documents = documents[p]
      /\ result[p].retrieval_stats[1].similarity_threshold =
           EffThreshold(args[p].similarity_threshold)
      /\ \A i \in 1 .. Len(result[p].context_documents) :
           result[p].context_documents[i].similarity_score >=
             result[p].retrieval_stats[1].similarity_threshold

\* a call without a threshold argument has returned a generated answer: the
\* statistics carry the configured threshold
RetrievalStatsWitness ==
  /\ pc[Caller] = "done"
  /\ result[Caller].success
  /\ ~result[Caller].from_cache
  /\ args[Caller].similarity_threshold = None
  /\ result[Caller].retrieval_stats[1].similarity_threshold = similarity_threshold
  /\ result[Caller].retrieval_stats[1].retrieved_count = 1

(* ============================= from_cache =============================== *)

\* the call of slot p ran retrieval or generation
Computed(p) == Invoked(p, "embed") \/ Invoked(p, "query") \/ Invoked(p, "generate")

\* C34: a result of process_question has from_cache=true exactly when the
\* call returned at the cache-hit branch, having run neither retrieval nor
\* generation; the results of the zero-document, success and failure
\* branches have from_cache=false.
FromCacheIffHit ==
  \A p \in Procs :
    pc[p] = "done" =>
      /\ result[p].from_cache <=> ~Computed(p)
      /\ result[p].from_cache =>
           /\ args[p].use_cache
           /\ ev[p] = << Event("cache_get", TRUE) >>
      /\ (ZeroDocs(p) \/ Failed(p) \/ Invoked(p, "generate")) => ~result[p].from_cache

\* a call with k=1 was answered from the cache without retrieval or generation
FromCacheIffHitWitness ==
  /\ pc[Caller] = "done"
  /\ args[Caller].k = 1
  /\ result[Caller].from_cache
  /\ ~Computed(Caller)
  /\ cache[cache_key[Caller]] # NoEntry

(* ========================= what the cache holds ========================= *)

\* C35: every entry process_question has stored is a result with
\* success=true, at least one retrieved document, from_cache=false and no
\* error: no zero-document result and no failure result is stored; and a
\* call writes the cache at most once.
StoredEntriesAreAnswers ==
  /\ \A key \in Keys :
       cache[key] # NoEntry =>
         LET stored == Loads(cache[key])
         IN /\ stored.success
            /\ Len(stored.context_documents) >= 1
            /\ ~stored.from_cache
            /\ stored.error = ""
            /\ stored.message = DoneMessage
            /\ stored.answer \notin { NoDocsAnswer, ErrorAnswer }
  /\ \A p \in Procs : Invocations(p, "cache_set") <= 1

\* a call has written its answer, and the entry it wrote is in the cache
StoredEntriesWitness ==
  /\ pc[Caller] = "done"
  /\ Invocations(Caller, "cache_set") = 1
  /\ LastEvent(Caller) = Event("cache_set", TRUE)
  /\ cache[cache_key[Caller]] = Dumps(result[Caller])
  /\ Len(result[Caller].context_documents) = 1

(* ============================== RAGEngine =============================== *)

\* C36: an operation that checks initialization and is called on an engine
\* whose initialize() has not completed successfully raises RuntimeError and
\* invokes neither processor: no processor method is called and no
\* process_question call is started.  Only such calls end with RuntimeError.
UninitializedRaises ==
  /\ engine.call.name \in EngineOps =>
       /\ ~engine.call.initialized =>
            /\ engine.call.stage = "raised"
            /\ engine.call.outcome = "RuntimeError"
            /\ engine.call.invoked = {}
            /\ pc[Caller] = "idle"
            /\ ev[Caller] = <<>>
       /\ engine.call.outcome = "RuntimeError" => ~engine.call.initialized
  /\ ~engine.initialized => (pc[Caller] = "idle" /\ ncalls = 0)

\* initialize() raised in QAProcessor(): the document processor exists, the
\* engine is not initialized, and answer_question raised RuntimeError
UninitializedRaisesWitness ==
  /\ engine.init = "raised"
  /\ engine.failed = "qa_processor"
  /\ engine.document_processor
  /\ ~engine.initialized
  /\ engine.call.name = "answer_question"
  /\ engine.call.outcome = "RuntimeError"

\* C37: initialized=true implies that both processors are constructed; an
\* initialize() in which a constructor raises itself raises and leaves
\* initialized as it was (false on an engine never initialized); the failure
\* of init_cache_client neither raises nor keeps initialized from becoming
\* true.
InitializedImpliesConstructed ==
  /\ [](/\ engine.initialized => (engine.document_processor /\ engine.qa_processor)
        /\ engine.init = "returned" => engine.initialized
        /\ (engine.init = "raised" /\ engine.ninit = 1) => ~engine.initialized
        /\ engine.init = "raised" <=> engine.failed # "none")
  /\ [][/\ (engine.init = "construct" /\ engine'.init # "construct") =>
             /\ engine'.failed # "none" =>
                  /\ engine'.init = "raised"
                  /\ engine'.initialized = engine.initialized
             /\ engine'.failed = "none" =>
                  /\ engine'.init = "returned"
                  /\ engine'.initialized
        /\ engine.init = "cache" => engine'.init \in { "cache", "construct" }]_vars

\* the first initialize() returned with the engine initialized although
\* init_cache_client had failed
InitializedWithoutCacheWitness ==
  /\ engine.ninit = 1
  /\ engine.init = "returned"
  /\ engine.cache_init = "failed"
  /\ ~cache_client
  /\ engine.initialized
  /\ engine.document_processor
  /\ engine.qa_processor

\* the probe of a finished health_check failed in retrieval or generation
ProbeFailed ==
  /\ engine.call.name = "health_check"
  /\ engine.call.stage = "returned"
  /\ engine.call.probe # <<>>
  /\ \E i \in 1 .. Len(engine.call.probe[1].events) :
       /\ engine.call.probe[1].events[i].op \in ExternalFailure
       /\ ~engine.call.probe[1].events[i].ok

\* C38: a health_check on an initialized engine whose probe question failed
\* in retrieval or generation reports components.llm.status 'unhealthy' and
\* overall status 'unhealthy'.
ProbeFailureUnhealthy ==
  ProbeFailed =>
    /\ engine.call.health[1].llm = "unhealthy"
    /\ engine.call.health[1].status = "unhealthy"

====
